---- MODULE Spec2Model ----
(***************************************************************************)
(* Model of the deterministic web crawler of                               *)
(* Lead_Management_Agent/src/crawler.py: the process-wide robots cache     *)
(* (RobotsCache / ROBOTS), _fetch, _discover_links, and the orchestrator   *)
(* crawl_site, run by several concurrent callers on one asyncio loop.      *)
(*                                                                         *)
(* An action is one uninterrupted run of a coroutine between two awaits:   *)
(* asyncio switches tasks only at an await that suspends, i.e. at an HTTP  *)
(* request (client.get) or at the gather of the sub-page fetches.          *)
(***************************************************************************)
EXTENDS Integers, Sequences, FiniteSets, TLC

(***************************************************************************)
(* Bounds of the model.                                                    *)
(***************************************************************************)
\* longest list of anchors of a root page
MaxAnchors == 3
\* largest max_pages a caller passes
MaxMaxPages == 4
\* the most results the merge loop is run over on its own
MaxMerged == 3

(***************************************************************************)
(* Program constants.                                                      *)
(***************************************************************************)
\* crawler.py:74  if len(found) >= 6: break
LinkCap == 6
\* crawler.py:204 ... [:40]
MergeCap == 40

\* the concurrent callers of crawl_site (asyncio tasks of one process)
Crawls == {"c1", "c2"}

(***************************************************************************)
(* URLs.  A URL is what urlparse splits it into: scheme, netloc, path.     *)
(***************************************************************************)
Schemes == {"https", "http"}
Netlocs == {"a.com", "b.com"}
\* a path is its last segment's name and extension: "/" is Path("", ""),
\* "/about" is Path("about", ""), "/pricing.pdf" is Path("pricing", "pdf")
Path(n, e) == [name |-> n, ext |-> e]
RootPath == Path("", "")
Paths == {RootPath, Path("about", ""), Path("contact", ""), Path("legal", ""),
          Path("pricing", "pdf")}

Url(s, n, p) == [scheme |-> s, netloc |-> n, path |-> p]
Urls == [scheme : Schemes, netloc : Netlocs, path : Paths]

\* crawler.py:27 and :185   base = f"{urlparse(url).scheme}://{urlparse(url).netloc}"
Origin(u) == [scheme |-> u.scheme, netloc |-> u.netloc]
Origins == [scheme : Schemes, netloc : Netlocs]

\* the URL string "scheme://netloc" parses to an empty path; every request
\* for it is a request for "/"
BaseUrl(o) == Url(o.scheme, o.netloc, RootPath)

(***************************************************************************)
(* robots.txt.  A parsed ruleset (RobotFileParser) is the set of path      *)
(* prefixes it disallows for the crawler's user agent; parse([]) gives the *)
(* empty ruleset.                                                          *)
(***************************************************************************)
RuleSets == {{}, {RootPath}, {Path("about", "")}}
\* the outcomes of client.get(robots_url): an exception (timeout, DNS,
\* connection reset), or a response with a status and a body
RobotsResponses ==
    {[kind |-> "exception", status |-> 0, rules |-> {}]}
    \cup {[kind |-> "response", status |-> 404, rules |-> {}]}
    \cup {[kind |-> "response", status |-> 200, rules |-> r] : r \in RuleSets}

\* crawler.py:31-35
ParseRobots(resp) ==
    IF resp.kind = "exception" THEN {}
    ELSE IF resp.status >= 400 THEN {}
    ELSE resp.rules

\* RobotFileParser.can_fetch: a Disallow line matches the paths it prefixes;
\* among Paths only "/" is a proper prefix of another path
PathPrefix(d, p) == d = RootPath \/ d = p
CanFetch(rp, u) == ~ \E d \in rp : PathPrefix(d, u.path)

(***************************************************************************)
(* Python helpers.                                                         *)
(***************************************************************************)
SeqToSet(s) == {s[i] : i \in DOMAIN s}
Min(a, b) == IF a <= b THEN a ELSE b
Max(a, b) == IF a >= b THEN a ELSE b

\* s[:k], Python slicing: a negative k counts from the end
PySlice(s, k) ==
    IF k >= 0 THEN SubSeq(s, 1, Min(k, Len(s)))
    ELSE SubSeq(s, 1, Max(Len(s) + k, 0))

\* sorted(S) for a set of integers
RECURSIVE Sorted(_)
Sorted(S) ==
    IF S = {} THEN <<>>
    ELSE LET m == CHOOSE x \in S : \A y \in S : x <= y
         IN <<m>> \o Sorted(S \ {m})

\* list(S) for a set of strings: the iteration order of a set depends on the
\* process's hash seed, so any order of the elements can come out
ListsOf(S) ==
    {s \in [1..Cardinality(S) -> S] : \A i, j \in 1..Cardinality(S) : i # j => s[i] # s[j]}

\* str.lower() on the strings of the model
Lower(s) ==
    CASE s = "About us" -> "about us"
      [] s = "Read more" -> "read more"
      [] s = "PDF" -> "pdf"
      [] s = "Pricing" -> "pricing"
      [] s = "NEXIUS" -> "nexius"
      [] s = "LABS" -> "labs"
      [] s = "PTE" -> "pte"
      [] s = "LTD" -> "ltd"
      [] s = "Co." -> "co."
      [] s = "Amazon" -> "amazon"
      [] OTHER -> s

(***************************************************************************)
(* Pages.  The HTML of a page is the list of its anchors (<a href=...>),   *)
(* in document order, and what _extract_signals reads from it.             *)
(***************************************************************************)
\* an href is relative ("/about"), absolute ("http://a.com/contact"), or one
\* that line 64 skips (empty, "#...", "mailto:", "tel:", "javascript:")
RelHref(p) == [kind |-> "rel", scheme |-> "", netloc |-> "", path |-> p]
AbsHref(u) == [kind |-> "abs", scheme |-> u.scheme, netloc |-> u.netloc, path |-> u.path]
SkipHref   == [kind |-> "skip", scheme |-> "", netloc |-> "", path |-> RootPath]

Anchor(h, t) == [href |-> h, text |-> t]

\* crawler.py:11-20: the model's lowercase strings that contain a TARGET_KEYWORDS
\* entry; "legal", "brochure", "read more", "" contain none
KeywordStrings == {"about", "about us", "contact", "pricing", "team", "blog",
                   "careers", "services"}
HasKeyword(str) == Lower(str) \in KeywordStrings

\* faulty variant: SKIP_EXT compiled without re.I
SKIP_EXT_CaseSensitive(path) ==
    path.ext \in {"pdf", "jpg", "jpeg", "png", "gif", "zip", "doc", "docx"}
\* crawler.py:21  SKIP_EXT, matched with re.I at the end of the path
SkipExts == {"pdf", "jpg", "jpeg", "png", "gif", "zip", "doc", "docx"}
SKIP_EXT(path) == Lower(path.ext) \in SkipExts

\* crawler.py:66  urljoin(base_url, href); base_url is "scheme://netloc"
UrlJoin(base, href) ==
    IF href.kind = "abs" THEN Url(href.scheme, href.netloc, href.path)
    ELSE Url(base.scheme, base.netloc, href.path)

\* crawler.py:67  the same-site test of _discover_links
SameSite(full, base) == full.netloc = base.netloc

\* crawler.py:71-72: label is the anchor's text, or the href when the text is
\* empty; the URL's keyword can only sit in its path (no scheme or netloc of
\* the model contains one)
LinkMatches(a, full) ==
    \/ IF a.text # "" THEN HasKeyword(a.text) ELSE HasKeyword(a.href.path.name)
    \/ HasKeyword(full.path.name)

\* faulty variant: the loop without lines 74-75, it never breaks
RECURSIVE FoundFromNoBreak(_, _, _, _)
FoundFromNoBreak(anchors, base, i, found) ==
    IF i > Len(anchors) THEN found
    ELSE LET a == anchors[i]
             full == UrlJoin(base, a.href)
         IN  IF a.href.kind = "skip" \/ ~ SameSite(full, base) \/ SKIP_EXT(full.path)
             THEN FoundFromNoBreak(anchors, base, i + 1, found)
             ELSE FoundFromNoBreak(anchors, base, i + 1,
                     IF LinkMatches(a, full) THEN found \cup {full} ELSE found)
\* crawler.py:61-75: the loop over the anchors, from anchor i on
RECURSIVE FoundFrom(_, _, _, _)
FoundFrom(anchors, base, i, found) ==
    IF i > Len(anchors) THEN found
    ELSE LET a == anchors[i]
             full == UrlJoin(base, a.href)
         IN  IF a.href.kind = "skip" THEN FoundFrom(anchors, base, i + 1, found)
             ELSE IF ~ SameSite(full, base) THEN FoundFrom(anchors, base, i + 1, found)
             ELSE IF SKIP_EXT(full.path) THEN FoundFrom(anchors, base, i + 1, found)
             ELSE LET f2 == IF LinkMatches(a, full) THEN found \cup {full} ELSE found
                  IN  IF Cardinality(f2) >= LinkCap THEN f2
                      ELSE FoundFrom(anchors, base, i + 1, f2)

\* crawler.py:60-76  _discover_links: the lists list(found) can be
_discover_links(anchors, base) == ListsOf(FoundFrom(anchors, base, 1, {}))

\* crawler.py:88  headings[:8]
HeadCap == 8
\* crawler.py:123  if len(pricing) >= 10: break
PricingCap == 10
\* crawler.py:89  [...][:20]
ItemsCap == 20

\* what a page shows to _extract_signals: its headings of 3 to 18 words (a
\* text is the integer of its rank in string order), the keywords of its
\* title, description, headings and list items, and the largest
\* "<n> open roles|jobs|positions" of its text, and the e-mail addresses of
\* its text in text order, its list items that name a plan and a price in
\* document order, and per bucket the TECH_PATTERNS found in its scripts and
\* links (an address, an item and a pattern are integers too)
TechBuckets == {"analytics", "crm", "cms", "ecommerce", "messaging"}

Content(h, cs, tm, cr, n) ==
    [headings |-> h, case_kw |-> cs, testimonial_kw |-> tm, careers_kw |-> cr, roles |-> n,
     emails |-> <<>>, pricing |-> <<>>, tech |-> [b \in TechBuckets |-> <<>>],
     phones |-> <<>>, items |-> <<>>, lang |-> <<>>]

\* the page of content with the phone numbers ph in its text, the list items
\* it of 2 to 10 words and the lang attribute l (<<>> when it has none)
WithPhones(content, ph) == [content EXCEPT !.phones = ph]
WithItems(content, it) == [content EXCEPT !.items = it]
WithLang(content, l) == [content EXCEPT !.lang = l]

\* the page of content with the priced list items p
WithPricing(content, p) == [content EXCEPT !.pricing = p]

\* the page of content with the patterns t found for bucket b
WithTech(content, b, t) == [content EXCEPT !.tech[b] = t]

\* the page of content with the e-mail addresses e in its text
WithEmails(content, e) == [content EXCEPT !.emails = e]

Html(anchors, content) == [anchors |-> anchors, content |-> content]

\* crawler.py:78-140  _extract_signals, the fields that crawl_site merges
_extract_signals(html) ==
    [value_props       |-> PySlice(html.content.headings, HeadCap),
     pricing           |-> PySlice(html.content.pricing, PricingCap),
     products_services |-> PySlice(html.content.items, ItemsCap),
     languages         |-> html.content.lang,
     contact           |-> [emails |-> Sorted(SeqToSet(html.content.emails)),
                            phones |-> Sorted(SeqToSet(html.content.phones))],
     tech              |-> html.content.tech,
     has_case_studies  |-> html.content.case_kw,
     has_testimonials  |-> html.content.testimonial_kw,
     has_careers_page  |-> html.content.careers_kw,
     open_roles_count  |-> html.content.roles,
     hiring            |-> [careers_page |-> html.content.careers_kw,
                            open_roles   |-> html.content.roles]]

\* faulty variant: lines 213-216 assign the sub-page's flags and count
MergeOneOverwrite(signals, s2) ==
    [signals EXCEPT
       !.has_case_studies = s2.has_case_studies,
       !.has_testimonials = s2.has_testimonials,
       !.has_careers_page = s2.has_careers_page,
       !.open_roles_count = s2.open_roles_count]
\* faulty variant: the lists are concatenated and cut, neither sorted nor
\* made duplicate-free
MergeOneConcat(signals, s2) ==
    [signals EXCEPT
       !.value_props = PySlice(signals.value_props \o s2.value_props, MergeCap),
       !.contact.emails = PySlice(signals.contact.emails \o s2.contact.emails, MergeCap),
       !.contact.phones = PySlice(signals.contact.phones \o s2.contact.phones, MergeCap),
       !.has_case_studies = signals.has_case_studies \/ s2.has_case_studies,
       !.has_testimonials = signals.has_testimonials \/ s2.has_testimonials,
       !.has_careers_page = signals.has_careers_page \/ s2.has_careers_page,
       !.open_roles_count = Max(signals.open_roles_count, s2.open_roles_count)]
\* faulty variant: the count of open roles is that of the page merged last
MergeOneLastCount(signals, s2) ==
    [signals EXCEPT
       !.value_props = PySlice(Sorted(SeqToSet(signals.value_props)
                                      \cup SeqToSet(s2.value_props)), MergeCap),
       !.contact.emails = PySlice(Sorted(SeqToSet(signals.contact.emails)
                                         \cup SeqToSet(s2.contact.emails)), MergeCap),
       !.has_case_studies = signals.has_case_studies \/ s2.has_case_studies,
       !.has_testimonials = signals.has_testimonials \/ s2.has_testimonials,
       !.has_careers_page = signals.has_careers_page \/ s2.has_careers_page,
       !.open_roles_count = s2.open_roles_count]
\* crawler.py:201-216: one round of the merge loop, s2 the sub-page's signals
MergeOne(signals, s2) ==
    [signals EXCEPT
       !.products_services = PySlice(Sorted(SeqToSet(signals.products_services)
                                            \cup SeqToSet(s2.products_services)), MergeCap),
       !.languages = PySlice(Sorted(SeqToSet(signals.languages)
                                    \cup SeqToSet(s2.languages)), MergeCap),
       !.contact.phones = PySlice(Sorted(SeqToSet(signals.contact.phones)
                                         \cup SeqToSet(s2.contact.phones)), MergeCap),
       !.value_props = PySlice(Sorted(SeqToSet(signals.value_props)
                                      \cup SeqToSet(s2.value_props)), MergeCap),
       !.pricing = PySlice(Sorted(SeqToSet(signals.pricing)
                                  \cup SeqToSet(s2.pricing)), MergeCap),
       !.contact.emails = PySlice(Sorted(SeqToSet(signals.contact.emails)
                                         \cup SeqToSet(s2.contact.emails)), MergeCap),
       !.tech = [b \in TechBuckets |->
                    PySlice(Sorted(SeqToSet(signals.tech[b]) \cup SeqToSet(s2.tech[b])),
                            MergeCap)],
       !.has_case_studies = signals.has_case_studies \/ s2.has_case_studies,
       !.has_testimonials = signals.has_testimonials \/ s2.has_testimonials,
       !.has_careers_page = signals.has_careers_page \/ s2.has_careers_page,
       !.open_roles_count = Max(signals.open_roles_count, s2.open_roles_count)]

(***************************************************************************)
(* _derive_features (crawler.py:142-160).  The text it searches is made of *)
(* the title, the description, value_props and products_services; of these *)
(* the pages of the model hold headings and list items, so the text is     *)
(* that of value_props and products_services.                              *)
(***************************************************************************)
\* the terms of lines 147-152 that the heading or list item t contains
TermsOf(t) ==
    CASE t = 2 -> {"shop"}
      [] t = 3 -> {"clients", "enterprise"}
      [] t = 4 -> {"startup"}
      [] t = 5 -> {"agency"}
      [] OTHER -> {}

\* crawler.py:147-148
B2bTerms == {"clients", "enterprise", "b2b", "solutions", "consulting", "services", "agency"}
B2cTerms == {"customers", "shop", "store", "retail", "buy", "purchase"}

\* crawler.py:143-146  the terms found in the text
TextTerms(signals) ==
    UNION {TermsOf(signals.value_props[i]) : i \in DOMAIN signals.value_props}
    \cup UNION {TermsOf(signals.products_services[i]) : i \in DOMAIN signals.products_services}

\* faulty variant: a text without any size term is taken for a one-person firm
SizeGuessSolo(terms) ==
    IF terms \cap {"enterprise", "global"} # {} THEN "51-200"
    ELSE IF terms \cap {"startup", "small team"} # {} THEN "2-10"
    ELSE "solo"
\* crawler.py:150-152  size_guess
SizeGuess(terms) ==
    IF terms \cap {"enterprise", "global"} # {} THEN "51-200"
    ELSE IF terms \cap {"startup", "small team"} # {} THEN "2-10"
    ELSE "unknown"

\* faulty variant: case studies are looked at before the open roles
UrgencyHintCaseStudiesFirst(signals) ==
    IF signals.has_case_studies THEN "3-6_months"
    ELSE IF signals.open_roles_count > 0 THEN "1-3_months"
    ELSE "none"
\* crawler.py:153  urgency_hint
UrgencyHint(signals) ==
    IF signals.open_roles_count > 0 THEN "1-3_months"
    ELSE IF signals.has_case_studies THEN "3-6_months"
    ELSE "none"

_derive_features(signals) ==
    LET terms == TextTerms(signals)
        size_guess == SizeGuess(terms)
        urgency_hint == UrgencyHint(signals)
    IN  [b2x |-> IF terms \cap B2bTerms # {} THEN "b2b"
                 ELSE IF terms \cap B2cTerms # {} THEN "b2c"
                 ELSE "unknown",
         company_size_guess |-> size_guess,
         urgency_hint |-> urgency_hint,
         buying_process_guess |-> IF size_guess = "51-200" THEN "multi_step_process"
                                  ELSE "single_decision_maker",
         triggers |-> IF urgency_hint = "1-3_months" THEN <<"hiring_for_growth">>
                      ELSE <<>>]

(***************************************************************************)
(* _rule_score (crawler.py:162-182).                                       *)
(***************************************************************************)
\* Python's round(n / d) for n >= 0 and d > 0: to the nearest integer, a tie
\* to the even one
RoundHalfEven(n, d) ==
    LET q == n \div d
        r == n % d
    IN  IF 2 * r < d THEN q
        ELSE IF 2 * r > d THEN q + 1
        ELSE IF q % 2 = 0 THEN q ELSE q + 1

\* faulty variant: a CRM and an analytics tool are counted 2 points each
TotalDoubleTech(signals, derived) ==
      (IF derived.b2x = "b2b" THEN 3 ELSE IF derived.b2x = "unknown" THEN 1 ELSE 0)
    + (IF derived.company_size_guess \in {"2-10", "11-50", "51-200"} THEN 2 ELSE 0)
    + (IF signals.has_case_studies THEN 2 ELSE 0)
    + (IF signals.has_careers_page THEN 2 ELSE 0)
    + (IF signals.open_roles_count > 0 THEN 2 ELSE 0)
    + (IF signals.tech["crm"] # <<>> THEN 2 ELSE 0)
    + (IF signals.tech["analytics"] # <<>> THEN 2 ELSE 0)
    + (IF signals.contact.emails # <<>> THEN 2 ELSE 0)
    + (IF signals.pricing # <<>> THEN 2 ELSE 0)
\* faulty variant: every signal is worth 6 points
TotalSixEach(signals, derived) ==
      (IF derived.b2x = "b2b" THEN 3 ELSE IF derived.b2x = "unknown" THEN 1 ELSE 0)
    + (IF derived.company_size_guess \in {"2-10", "11-50", "51-200"} THEN 6 ELSE 0)
    + (IF signals.has_case_studies THEN 6 ELSE 0)
    + (IF signals.has_careers_page THEN 6 ELSE 0)
    + (IF signals.open_roles_count > 0 THEN 6 ELSE 0)
    + (IF signals.tech["crm"] # <<>> \/ signals.tech["analytics"] # <<>> THEN 6 ELSE 0)
    + (IF signals.contact.emails # <<>> THEN 6 ELSE 0)
    + (IF signals.pricing # <<>> THEN 6 ELSE 0)
\* crawler.py:163-171  total
Total(signals, derived) ==
      (IF derived.b2x = "b2b" THEN 3 ELSE IF derived.b2x = "unknown" THEN 1 ELSE 0)
    + (IF derived.company_size_guess \in {"2-10", "11-50", "51-200"} THEN 2 ELSE 0)
    + (IF signals.has_case_studies THEN 2 ELSE 0)
    + (IF signals.has_careers_page THEN 2 ELSE 0)
    + (IF signals.open_roles_count > 0 THEN 2 ELSE 0)
    + (IF signals.tech["crm"] # <<>> \/ signals.tech["analytics"] # <<>> THEN 2 ELSE 0)
    + (IF signals.contact.emails # <<>> THEN 2 ELSE 0)
    + (IF signals.pricing # <<>> THEN 2 ELSE 0)

\* faulty variant: the raw total is not scaled by 48
ScoreOfUnscaled(total) == RoundHalfEven(Max(0, Min(total, 48)) * 100, 1)
\* crawler.py:172-173  raw = max(0, min(total, 48)); round((raw / 48) * 100)
ScoreOf(total) == RoundHalfEven(Max(0, Min(total, 48)) * 100, 48)

\* crawler.py:174-176
BandOf(score) ==
    IF score >= 75 THEN "Ideal ICP"
    ELSE IF score >= 50 THEN "Good fit"
    ELSE "Poor fit"

\* faulty variant: 'other' is appended whatever the list holds
ShortlistAlwaysOther(signals, derived) ==
    (IF derived.company_size_guess = "solo" /\ derived.b2x = "b2b"
     THEN <<"solo_services">> ELSE <<>>)
    \o (IF signals.tech["ecommerce"] # <<>> THEN <<"smb_ecom">> ELSE <<>>)
    \o (IF derived.b2x = "b2b" THEN <<"b2b_agency">> ELSE <<>>)
    \o <<"other">>
\* crawler.py:177-181
Shortlist(signals, derived) ==
    LET sl == (IF derived.company_size_guess = "solo" /\ derived.b2x = "b2b"
               THEN <<"solo_services">> ELSE <<>>)
              \o (IF signals.tech["ecommerce"] # <<>> THEN <<"smb_ecom">> ELSE <<>>)
              \o (IF derived.b2x = "b2b" THEN <<"b2b_agency">> ELSE <<>>)
    IN  IF sl = <<>> THEN <<"other">> ELSE sl

_rule_score(signals, derived) ==
    [rule_score |-> ScoreOf(Total(signals, derived)),
     rule_band  |-> BandOf(ScoreOf(Total(signals, derived))),
     shortlist  |-> Shortlist(signals, derived)]

(***************************************************************************)
(* HTTP.  The outcome of client.get(url) for a page: an exception, or a    *)
(* response with a status and a body.                                      *)
(***************************************************************************)
EmptyContent == Content(<<>>, FALSE, FALSE, FALSE, 0)
EmptyHtml == Html(<<>>, EmptyContent)

Raised(html) == [kind |-> "exception", status |-> 0, html |-> html]
Response(st, html) == [kind |-> "response", status |-> st, html |-> html]

\* crawler.py:55-58  _fetch: client.get raises, or raise_for_status raises on
\* an error status, or the body is returned
FetchFails(resp) == resp.kind = "exception" \/ resp.status >= 400

\* an entry of the list that gather returns, and a fetch still in flight
Pending == [st |-> "pending", html |-> EmptyHtml]
_fetch(resp) ==
    IF FetchFails(resp) THEN [st |-> "exception", html |-> EmptyHtml]
    ELSE [st |-> "ok", html |-> resp.html]

(***************************************************************************)
(* The inputs the model draws from.                                        *)
(***************************************************************************)
About   == Path("about", "")
Contact == Path("contact", "")

\* the root URLs the callers pass
RootUrls == {Url("https", "a.com", RootPath), Url("http", "a.com", RootPath)}

\* the max_pages the callers pass
MaxPagesInputs == -1 .. MaxMaxPages

\* the anchors a root page is made of
PageAnchors ==
    {Anchor(RelHref(About), "About us"),
     Anchor(RelHref(Contact), ""),
     Anchor(AbsHref(Url("http", "a.com", Contact)), ""),
     Anchor(AbsHref(Url("https", "b.com", About)), "About us"),
     Anchor(RelHref(Path("pricing", "pdf")), "Read more"),
     Anchor(RelHref(Path("legal", "")), "Read more"),
     Anchor(SkipHref, "About us")}

AnchorLists == UNION {[1..n -> PageAnchors] : n \in 0..MaxAnchors}

RootContents == {Content(<<2, 1>>, FALSE, FALSE, FALSE, 0)}
SubContents  == {Content(<<3, 1>>, TRUE, FALSE, TRUE, 2), EmptyContent}

RootResponses ==
    {Raised(EmptyHtml), Response(500, EmptyHtml)}
    \cup {Response(200, Html(a, c)) : a \in AnchorLists, c \in RootContents}

\* the anchors of a sub-page are never read
SubResponses ==
    {Raised(EmptyHtml), Response(500, EmptyHtml)}
    \cup {Response(200, Html(<<>>, c)) : c \in SubContents}

(***************************************************************************)
(* State.                                                                  *)
(***************************************************************************)
VARIABLES
    cache,        \* ROBOTS._cache: origin -> ruleset, a dict (its keys: DOMAIN)
    pc,           \* where each crawl_site call stands
    url,          \* crawl_site's argument url
    max_pages,    \* crawl_site's argument max_pages
    signals,      \* crawl_site's local signals
    links,        \* crawl_site's local links
    idx,          \* how far the loop over links has come (1-based)
    allowed,      \* crawl_site's local allowed
    pages,        \* the results of the gathered _fetch tasks
    result,       \* what the call returned or raised
    fetchLog,     \* history: the URLs the call has passed to _fetch, in order
    rootRes,      \* history: how the call's _fetch of the root page ended
    robotsLog,    \* history: the answers of ROBOTS.allowed within the call
    mergedPages,  \* history: the indices of pages the merge loop merged
    robotsGets,   \* history: robots.txt requests issued, per origin
    cacheWrites,  \* history: rulesets written to the cache, per origin
    failedOpen,   \* history: origins one of whose robots.txt requests failed
    fn,           \* the function a caller applies on its own, "none" in a crawl
    arg,          \* its arguments
    ret           \* what it has returned so far

pureVars == <<fn, arg, ret>>

vars == <<cache, pc, url, max_pages, signals, links, idx, allowed, pages, result,
          fetchLog, rootRes, robotsLog, mergedPages, robotsGets, cacheWrites,
          failedOpen, fn, arg, ret>>

NoResult == [kind |-> "none"]
NoSignals == _extract_signals(EmptyHtml)

\* the process has started: the cache is empty and no crawl_site call runs
NoCrawl ==
    /\ cache = [o \in {} |-> {}]
    /\ pc = [c \in Crawls |-> "idle"]
    /\ url = [c \in Crawls |-> Url("https", "a.com", RootPath)]
    /\ max_pages = [c \in Crawls |-> 0]
    /\ signals = [c \in Crawls |-> NoSignals]
    /\ links = [c \in Crawls |-> <<>>]
    /\ idx = [c \in Crawls |-> 1]
    /\ allowed = [c \in Crawls |-> <<>>]
    /\ pages = [c \in Crawls |-> <<>>]
    /\ result = [c \in Crawls |-> NoResult]
    /\ fetchLog = [c \in Crawls |-> <<>>]
    /\ rootRes = [c \in Crawls |-> "none"]
    /\ robotsLog = [c \in Crawls |-> <<>>]
    /\ mergedPages = [c \in Crawls |-> <<>>]
    /\ robotsGets = [o \in Origins |-> 0]
    /\ cacheWrites = [o \in Origins |-> <<>>]
    /\ failedOpen = {}

\* a function applied on its own: not yet returned, returned v
NoRet == [done |-> FALSE]
Ret(v) == [done |-> TRUE, value |-> v]

Init == NoCrawl /\ fn = "none" /\ arg = <<>> /\ ret = NoRet

(***************************************************************************)
(* RobotsCache.allowed (crawler.py:26-37).                                 *)
(***************************************************************************)
\* crawler.py:28  base not in self._cache
Cached(ch, o) == o \in DOMAIN ch

\* faulty variant: the cache keeps the entry written last only
CachePutEvicts(ch, o, rp) == [x \in {o} |-> rp]
\* crawler.py:36  self._cache[base] = rp
CachePut(ch, o, rp) == [x \in DOMAIN ch \cup {o} |-> IF x = o THEN rp ELSE ch[x]]

\* how a robots.txt request ended
HowOf(resp) ==
    IF resp.kind = "exception" THEN "exception"
    ELSE IF resp.status >= 400 THEN "error_status"
    ELSE "rules"

LogEntry(u, how, after, ok) == [url |-> u, how |-> how, afterFail |-> after, result |-> ok]

(***************************************************************************)
(* crawl_site (crawler.py:184-230).                                        *)
(***************************************************************************)
\* faulty variant: the root URL's robots answer is ignored
RootBlockedMutant(ok) == FALSE
\* crawler.py:187  if not await ROBOTS.allowed(client, url): raise
RootBlocked(ok) == ~ ok

\* faulty variant: a failed root fetch is swallowed (an empty page is crawled)
RootFetchRaisesMutant(res) == FALSE
\* crawler.py:189  _, html = await _fetch(client, url): not in a try, so the
\* exception of a failed root fetch leaves crawl_site
RootFetchRaises(res) == res.st = "exception"

\* faulty variant: a link is kept whatever the robots gate answers
KeepLinkMutant(ok) == TRUE
\* crawler.py:195  if await ROBOTS.allowed(client, u): allowed.append(u)
KeepLink(ok) == ok

\* faulty variant: gather without return_exceptions, a failed task's
\* exception leaves the await
GatherRaisesMutant(pgs) == \E i \in DOMAIN pgs : pgs[i].st = "exception"
\* crawler.py:198  gather(..., return_exceptions=True): a failed task's
\* exception is an entry of the returned list, the await does not raise
GatherRaises(pgs) == FALSE

\* faulty variant: gather resumes the caller only once every task succeeded
GatherDoneAllOk(pgs) == \A k \in DOMAIN pgs : pgs[k].st = "ok"
\* crawler.py:198  await asyncio.gather(...): the caller resumes when every
\* task has ended, with a result or an exception
GatherDone(pgs) == \A k \in DOMAIN pgs : pgs[k] # Pending

\* faulty variant: the merge loop stops (break) at the first failed page
RECURSIVE MergeOrderMutant(_, _)
MergeOrderMutant(pgs, i) ==
    IF i > Len(pgs) THEN <<>>
    ELSE IF pgs[i].st = "exception" THEN <<>>
    ELSE <<i>> \o MergeOrderMutant(pgs, i + 1)
\* crawler.py:199-200: the pages the merge loop merges, in its order; a failed
\* page is skipped (continue)
RECURSIVE MergeOrder(_, _)
MergeOrder(pgs, i) ==
    IF i > Len(pgs) THEN <<>>
    ELSE IF pgs[i].st = "exception" THEN MergeOrder(pgs, i + 1)
    ELSE <<i>> \o MergeOrder(pgs, i + 1)

\* crawler.py:199-216: the merge loop over the pages of order, from its k-th
RECURSIVE MergeAll(_, _, _, _)
MergeAll(sig, pgs, order, k) ==
    IF k > Len(order) THEN sig
    ELSE MergeAll(MergeOne(sig, _extract_signals(pgs[order[k]].html)), pgs, order, k + 1)

\* crawler.py:221-230: the summary returned
Summary(u, sig, alw) ==
    [kind |-> "summary", url |-> u, key_pages |-> alw, signals |-> sig,
     fetched_pages |-> 1 + Len(alw)]

Error(msg) == [kind |-> "error", msg |-> msg]

\* faulty variant: features and score are computed from the root page's
\* signals, before the merge loop
ScoreInputRoot(rootSig, merged) == rootSig
\* crawler.py:218-219 read signals after the merge loop
ScoreInput(rootSig, merged) == merged

\* crawler.py:218-219, 227  derived, scored and the **scored of the summary
Scored(rootSig, merged) ==
    _rule_score(ScoreInput(rootSig, merged), _derive_features(ScoreInput(rootSig, merged)))

\* crawler.py:193-197: the loop over links from link i on, run until it
\* ends or awaits a robots.txt request (the origin of links[i] is not cached)
RECURSIVE SubLoop(_, _, _, _, _, _)
SubLoop(lks, i, alw, log, ch, fo) ==
    IF i > Len(lks) \/ ~ Cached(ch, Origin(lks[i]))
    THEN [idx |-> i, allowed |-> alw, log |-> log]
    ELSE LET ok == CanFetch(ch[Origin(lks[i])], lks[i])
         IN  SubLoop(lks, i + 1,
                     IF KeepLink(ok) THEN Append(alw, lks[i]) ELSE alw,
                     Append(log, LogEntry(lks[i], "cache", Origin(lks[i]) \in fo, ok)),
                     ch, fo)

\* crawler.py:193-198 and, when nothing is allowed, :199-230: crawl c goes on
\* from link i until its next await
Continue(c, sig, lks, i, alw, log, ch, fo) ==
    LET r == SubLoop(lks, i, alw, log, ch, fo)
    IN  /\ idx' = [idx EXCEPT ![c] = r.idx]
        /\ allowed' = [allowed EXCEPT ![c] = r.allowed]
        /\ robotsLog' = [robotsLog EXCEPT ![c] = r.log]
        /\ IF r.idx <= Len(lks)
           THEN /\ pc' = [pc EXCEPT ![c] = "robots_sub"]
                /\ robotsGets' = [robotsGets EXCEPT ![Origin(lks[r.idx])] = @ + 1]
                /\ UNCHANGED <<pages, result, fetchLog, mergedPages>>
           ELSE IF r.allowed = <<>>
           THEN /\ pc' = [pc EXCEPT ![c] = "done"]
                /\ result' = [result EXCEPT ![c] =
                                  Summary(url[c], sig, r.allowed) @@ Scored(sig, sig)]
                /\ UNCHANGED <<pages, fetchLog, mergedPages, robotsGets>>
           ELSE /\ pc' = [pc EXCEPT ![c] = "gather"]
                /\ pages' = [pages EXCEPT ![c] = [k \in 1..Len(r.allowed) |-> Pending]]
                /\ fetchLog' = [fetchLog EXCEPT ![c] = @ \o r.allowed]
                /\ UNCHANGED <<result, mergedPages, robotsGets>>

\* crawler.py:187-189: the root URL's robots answer is in: raise, or fetch
AfterRootRobots(c, u, ok) ==
    IF RootBlocked(ok)
    THEN /\ pc' = [pc EXCEPT ![c] = "raised"]
         /\ result' = [result EXCEPT ![c] = Error("Blocked by robots.txt")]
         /\ UNCHANGED <<fetchLog, rootRes>>
    ELSE /\ pc' = [pc EXCEPT ![c] = "fetch_root"]
         /\ fetchLog' = [fetchLog EXCEPT ![c] = Append(@, u)]
         /\ rootRes' = [rootRes EXCEPT ![c] = "pending"]
         /\ UNCHANGED result

\* a caller calls crawl_site(u, mp), u in U and mp in M: lines 185-187 up to
\* the first await
Start(c, U, M) ==
    /\ pc[c] = "idle"
    /\ \E u \in U, mp \in M :
         /\ url' = [url EXCEPT ![c] = u]
         /\ max_pages' = [max_pages EXCEPT ![c] = mp]
         /\ IF Cached(cache, Origin(u))
            THEN LET ok == CanFetch(cache[Origin(u)], u)
                 IN  /\ robotsLog' = [robotsLog EXCEPT ![c] =
                            Append(@, LogEntry(u, "cache", Origin(u) \in failedOpen, ok))]
                     /\ AfterRootRobots(c, u, ok)
                     /\ UNCHANGED robotsGets
            ELSE /\ pc' = [pc EXCEPT ![c] = "robots_root"]
                 /\ robotsGets' = [robotsGets EXCEPT ![Origin(u)] = @ + 1]
                 /\ UNCHANGED <<robotsLog, result, fetchLog, rootRes>>
    /\ UNCHANGED <<cache, signals, links, idx, allowed, pages, mergedPages,
                   cacheWrites, failedOpen>>
    /\ UNCHANGED pureVars

\* crawler.py:32-37: the robots.txt request of origin o ends with resp
RobotsWrite(o, resp) ==
    /\ cache' = CachePut(cache, o, ParseRobots(resp))
    /\ cacheWrites' = [cacheWrites EXCEPT ![o] = Append(@, ParseRobots(resp))]
    /\ failedOpen' = IF HowOf(resp) = "rules" THEN failedOpen ELSE failedOpen \cup {o}

\* the robots.txt request for the root URL's origin ends: lines 33-37, 187-189
RobotsRootResponse(c) ==
    /\ pc[c] = "robots_root"
    /\ \E resp \in RobotsResponses :
         LET ok == CanFetch(ParseRobots(resp), url[c])
         IN  /\ RobotsWrite(Origin(url[c]), resp)
             /\ robotsLog' = [robotsLog EXCEPT ![c] =
                    Append(@, LogEntry(url[c], HowOf(resp), FALSE, ok))]
             /\ AfterRootRobots(c, url[c], ok)
    /\ UNCHANGED <<url, max_pages, signals, links, idx, allowed, pages,
                   mergedPages, robotsGets>>
    /\ UNCHANGED pureVars

\* the root page's request ends with a response of R: lines 189-198
RootFetchResponse(c, R) ==
    /\ pc[c] = "fetch_root"
    /\ \E resp \in R :
         LET res == _fetch(resp)
         IN  /\ rootRes' = [rootRes EXCEPT ![c] = res.st]
             /\ IF RootFetchRaises(res)
                THEN /\ pc' = [pc EXCEPT ![c] = "raised"]
                     /\ result' = [result EXCEPT ![c] = Error("HTTPError")]
                     /\ UNCHANGED <<signals, links, idx, allowed, pages, fetchLog,
                                    robotsLog, mergedPages, robotsGets>>
                ELSE \E found \in _discover_links(res.html.anchors, Origin(url[c])) :
                       LET sig == _extract_signals(res.html)
                           lks == PySlice(found, max_pages[c] - 1)
                       IN  /\ signals' = [signals EXCEPT ![c] = sig]
                           /\ links' = [links EXCEPT ![c] = lks]
                           /\ Continue(c, sig, lks, 1, <<>>, robotsLog[c], cache,
                                       failedOpen)
    /\ UNCHANGED <<cache, url, max_pages, cacheWrites, failedOpen>>
    /\ UNCHANGED pureVars

\* the robots.txt request for links[idx] ends: lines 33-37, 195-198
RobotsSubResponse(c) ==
    /\ pc[c] = "robots_sub"
    /\ \E resp \in RobotsResponses :
         LET u == links[c][idx[c]]
             ok == CanFetch(ParseRobots(resp), u)
         IN  /\ RobotsWrite(Origin(u), resp)
             /\ Continue(c, signals[c], links[c], idx[c] + 1,
                         IF KeepLink(ok) THEN Append(allowed[c], u) ELSE allowed[c],
                         Append(robotsLog[c], LogEntry(u, HowOf(resp), FALSE, ok)),
                         cache', failedOpen')
    /\ UNCHANGED <<url, max_pages, signals, links, rootRes>>
    /\ UNCHANGED pureVars

\* the k-th of the gathered _fetch tasks ends with a response of R
FetchDone(c, k, R) ==
    /\ pc[c] = "gather"
    /\ k \in DOMAIN pages[c]
    /\ pages[c][k] = Pending
    /\ \E resp \in R :
         pages' = [pages EXCEPT ![c][k] = _fetch(resp)]
    /\ UNCHANGED <<cache, pc, url, max_pages, signals, links, idx, allowed, result,
                   fetchLog, rootRes, robotsLog, mergedPages, robotsGets, cacheWrites, failedOpen>>
    /\ UNCHANGED pureVars

\* every gathered task has ended, crawl_site resumes: lines 198-230
GatherReturn(c) ==
    /\ pc[c] = "gather"
    /\ GatherDone(pages[c])
    /\ IF GatherRaises(pages[c])
       THEN /\ pc' = [pc EXCEPT ![c] = "raised"]
            /\ result' = [result EXCEPT ![c] = Error("HTTPError")]
            /\ UNCHANGED <<signals, mergedPages>>
       ELSE LET order == MergeOrder(pages[c], 1)
                sig == MergeAll(signals[c], pages[c], order, 1)
            IN  /\ signals' = [signals EXCEPT ![c] = sig]
                /\ mergedPages' = [mergedPages EXCEPT ![c] = order]
                /\ pc' = [pc EXCEPT ![c] = "done"]
                /\ result' = [result EXCEPT ![c] =
                                  Summary(url[c], sig, allowed[c])
                                  @@ Scored(signals[c], signals'[c])]
    /\ UNCHANGED <<cache, url, max_pages, links, idx, allowed, pages, fetchLog,
                   rootRes, robotsLog, robotsGets, cacheWrites, failedOpen>>
    /\ UNCHANGED pureVars

\* the caller has the summary or the exception; the slot is free for the
\* process's next call of crawl_site
Return(c) ==
    /\ pc[c] \in {"done", "raised"}
    /\ pc' = [pc EXCEPT ![c] = "idle"]
    /\ signals' = [signals EXCEPT ![c] = NoSignals]
    /\ links' = [links EXCEPT ![c] = <<>>]
    /\ idx' = [idx EXCEPT ![c] = 1]
    /\ allowed' = [allowed EXCEPT ![c] = <<>>]
    /\ pages' = [pages EXCEPT ![c] = <<>>]
    /\ result' = [result EXCEPT ![c] = NoResult]
    /\ fetchLog' = [fetchLog EXCEPT ![c] = <<>>]
    /\ rootRes' = [rootRes EXCEPT ![c] = "none"]
    /\ robotsLog' = [robotsLog EXCEPT ![c] = <<>>]
    /\ mergedPages' = [mergedPages EXCEPT ![c] = <<>>]
    /\ UNCHANGED <<cache, url, max_pages, robotsGets, cacheWrites, failedOpen>>
    /\ UNCHANGED pureVars

(***************************************************************************)
(* Spec: one caller that calls crawl_site again and again, the cache       *)
(* living as long as the process.                                          *)
(***************************************************************************)
Next ==
    \/ Start("c1", RootUrls, MaxPagesInputs)
    \/ RobotsRootResponse("c1")
    \/ RootFetchResponse("c1", RootResponses)
    \/ RobotsSubResponse("c1")
    \/ \E k \in 1..LinkCap : FetchDone("c1", k, SubResponses)
    \/ GatherReturn("c1")
    \/ Return("c1")

Spec == Init /\ [][Next]_vars

(***************************************************************************)
(* SpecOverlap: two callers whose crawl_site calls overlap on one origin.  *)
(***************************************************************************)
OverlapUrls == {Url("https", "a.com", RootPath)}
OverlapMaxPages == {2}
OverlapRootResponses ==
    {Raised(EmptyHtml),
     Response(200, Html(<<>>, EmptyContent)),
     Response(200, Html(<<Anchor(RelHref(About), "About us")>>, EmptyContent)),
     Response(200, Html(<<Anchor(AbsHref(Url("http", "a.com", Contact)), "")>>,
                        EmptyContent))}
OverlapSubResponses == {Raised(EmptyHtml), Response(200, Html(<<>>, EmptyContent))}

NextOverlap ==
    \E c \in Crawls :
        \/ Start(c, OverlapUrls, OverlapMaxPages)
        \/ RobotsRootResponse(c)
        \/ RootFetchResponse(c, OverlapRootResponses)
        \/ RobotsSubResponse(c)
        \/ \E k \in 1..LinkCap : FetchDone(c, k, OverlapSubResponses)
        \/ GatherReturn(c)

SpecOverlap == Init /\ [][NextOverlap]_vars

(***************************************************************************)
(* SpecLive: one crawl_site call under the scheduling of the code: every   *)
(* HTTP request ends (client.get has timeout=TIMEOUT_S, lines 32 and 56)   *)
(* and the event loop resumes a coroutine whose await is over.  The caller *)
(* is not obliged to call crawl_site.                                      *)
(***************************************************************************)
LiveMaxPages == {1, 2, 3}
LiveRootResponses ==
    OverlapRootResponses
    \cup {Response(200, Html(<<Anchor(RelHref(About), "About us"),
                               Anchor(AbsHref(Url("http", "a.com", Contact)), "")>>,
                             EmptyContent))}

NextLive ==
    \/ Start("c1", RootUrls, LiveMaxPages)
    \/ RobotsRootResponse("c1")
    \/ RootFetchResponse("c1", LiveRootResponses)
    \/ RobotsSubResponse("c1")
    \/ \E k \in 1..LinkCap : FetchDone("c1", k, OverlapSubResponses)
    \/ GatherReturn("c1")

Fairness ==
    /\ WF_vars(RobotsRootResponse("c1"))
    /\ WF_vars(RootFetchResponse("c1", LiveRootResponses))
    /\ WF_vars(RobotsSubResponse("c1"))
    /\ \A k \in 1..LinkCap : WF_vars(FetchDone("c1", k, OverlapSubResponses))
    /\ WF_vars(GatherReturn("c1"))

SpecLive == Init /\ [][NextLive]_vars /\ Fairness

(***************************************************************************)
(* SpecLinks: _discover_links applied to the pages made of the anchors of  *)
(* one document, in document order.                                        *)
(***************************************************************************)
\* the anchors of the document: seven same-site links that match a keyword,
\* two of a blocked extension (one in capitals), one of another site
DocAnchors ==
    << Anchor(RelHref(About), "About us"),
       Anchor(RelHref(Path("pricing", "pdf")), "Pricing"),
       Anchor(RelHref(Contact), ""),
       Anchor(RelHref(Path("brochure", "PDF")), "About us"),
       Anchor(RelHref(Path("team", "")), "Read more"),
       Anchor(RelHref(Path("blog", "")), ""),
       Anchor(AbsHref(Url("https", "b.com", About)), "About us"),
       Anchor(RelHref(Path("careers", "")), ""),
       Anchor(RelHref(Path("services", "html")), ""),
       Anchor(RelHref(Path("legal", "")), "Pricing") >>

\* the anchors of doc at the positions of S, in document order
RECURSIVE Pick(_, _, _)
Pick(doc, S, i) ==
    IF i > Len(doc) THEN <<>>
    ELSE (IF i \in S THEN <<doc[i]>> ELSE <<>>) \o Pick(doc, S, i + 1)

LinksInputs ==
    {[html |-> Pick(DocAnchors, S, 1), base_url |-> Origin(Url("https", "a.com", RootPath))] :
        S \in SUBSET (1..Len(DocAnchors))}

InitLinks == NoCrawl /\ fn = "_discover_links" /\ arg \in LinksInputs /\ ret = NoRet

\* the call returns one of the lists list(found) can be
DiscoverReturns ==
    /\ fn = "_discover_links"
    /\ ~ ret.done
    /\ \E lks \in _discover_links(arg.html, arg.base_url) : ret' = Ret(lks)
    /\ UNCHANGED <<cache, pc, url, max_pages, signals, links, idx, allowed, pages,
                   result, fetchLog, rootRes, robotsLog, mergedPages, robotsGets,
                   cacheWrites, failedOpen, fn, arg>>

NextLinks == DiscoverReturns

SpecLinks == InitLinks /\ [][NextLinks]_vars

(***************************************************************************)
(* SpecWide: one crawl_site call on a root page with more matching links   *)
(* than _discover_links keeps.                                             *)
(***************************************************************************)
WideUrls == {Url("https", "a.com", RootPath)}
WideMaxPages == {-1, 0, 9}
WideRootResponses == {Response(200, Html(DocAnchors, EmptyContent))}
WideSubResponses == {Response(200, Html(<<>>, EmptyContent))}

\* every link of the page is of the root's origin, which the root step has
\* cached: no robots.txt request is issued for a link
NextWide ==
    \/ Start("c1", WideUrls, WideMaxPages)
    \/ RobotsRootResponse("c1")
    \/ RootFetchResponse("c1", WideRootResponses)
    \/ \E k \in 1..LinkCap : FetchDone("c1", k, WideSubResponses)
    \/ GatherReturn("c1")

SpecWide == Init /\ [][NextWide]_vars

(***************************************************************************)
(* SpecContact: crawl_site calls on root pages whose text holds more       *)
(* e-mail addresses than the merge loop keeps.                             *)
(***************************************************************************)
\* one address more than the cap of the merge loop, in text order
ManyEmails == [i \in 1..(MergeCap + 1) |-> MergeCap + 2 - i]

ContactUrls == {Url("https", "a.com", RootPath)}
ContactMaxPages == {1, 3}
ContactRootResponses ==
    {Response(200, Html(a, WithEmails(Content(<<2, 1>>, FALSE, FALSE, FALSE, 0), e))) :
        a \in {<<>>,
               <<Anchor(RelHref(About), "About us")>>,
               <<Anchor(RelHref(About), "About us"), Anchor(RelHref(Contact), "")>>},
        e \in {<<>>, <<3, 1, 3>>, ManyEmails}}
ContactSubResponses ==
    {Raised(EmptyHtml),
     Response(200, Html(<<>>, WithEmails(EmptyContent, <<MergeCap + 2, 1>>)))}

NextContact ==
    \/ Start("c1", ContactUrls, ContactMaxPages)
    \/ RobotsRootResponse("c1")
    \/ RootFetchResponse("c1", ContactRootResponses)
    \/ \E k \in 1..LinkCap : FetchDone("c1", k, ContactSubResponses)
    \/ GatherReturn("c1")
    \/ Return("c1")

SpecContact == Init /\ [][NextContact]_vars

(***************************************************************************)
(* SpecScore: _rule_score applied to the signals of a page and the         *)
(* features derived for it.                                                *)
(***************************************************************************)
ScoreContents ==
    {WithTech(WithTech(WithTech(WithPricing(WithEmails(
        Content(<<>>, cs, FALSE, cr, n), e), p), "crm", t1), "analytics", t2),
        "ecommerce", t3) :
        cs \in BOOLEAN, cr \in BOOLEAN, n \in {0, 2},
        e \in {<<>>, <<1>>}, p \in {<<>>, <<1>>},
        t1 \in {<<>>, <<1>>}, t2 \in {<<>>, <<2>>}, t3 \in {<<>>, <<3>>}}

DerivedInputs ==
    [b2x : {"b2b", "b2c", "unknown"},
     company_size_guess : {"unknown", "solo", "2-10", "11-50", "51-200"}]

ScoreInputs ==
    {[signals |-> _extract_signals(Html(<<>>, c)), derived |-> d] :
        c \in ScoreContents, d \in DerivedInputs}

InitScore == NoCrawl /\ fn = "_rule_score" /\ arg \in ScoreInputs /\ ret = NoRet

ScoreReturns ==
    /\ fn = "_rule_score"
    /\ ~ ret.done
    /\ ret' = Ret(_rule_score(arg.signals, arg.derived))
    /\ UNCHANGED <<cache, pc, url, max_pages, signals, links, idx, allowed, pages,
                   result, fetchLog, rootRes, robotsLog, mergedPages, robotsGets,
                   cacheWrites, failedOpen, fn, arg>>

NextScore == ScoreReturns

SpecScore == InitScore /\ [][NextScore]_vars

(***************************************************************************)
(* SpecMerge: the merge loop of crawl_site (crawler.py:199-216), one round *)
(* a step, over the results of any gathered fetches in any order.          *)
(***************************************************************************)
\* a sub-page with every kind of list filled
RichSub ==
    WithLang(WithItems(WithPhones(WithPricing(WithTech(WithEmails(
        Content(<<3, 1>>, FALSE, FALSE, FALSE, 0),
        <<MergeCap + 2, 1>>), "crm", <<3, 1>>), <<4, 1>>), <<9, 3>>), <<2, 1>>), <<2>>)

MergeRootContents ==
    {Content(<<2, 1>>, cs, FALSE, cr, n) : cs \in BOOLEAN, cr \in BOOLEAN, n \in {0, 1}}
    \cup {WithLang(WithItems(WithPhones(WithPricing(WithTech(WithEmails(
              Content(<<2, 1, 2>>, FALSE, FALSE, FALSE, 0),
              ManyEmails), "crm", <<2, 1>>), <<5, 4>>), <<7, 7, 3>>), <<6, 2>>), <<1>>)}
MergeResults ==
    {_fetch(Raised(EmptyHtml))}
    \cup {_fetch(Response(200, Html(<<>>, c))) :
            c \in {EmptyContent,
                   Content(<<3>>, TRUE, TRUE, FALSE, 2),
                   Content(<<>>, FALSE, FALSE, TRUE, 1),
                   Content(<<1>>, FALSE, TRUE, TRUE, 0),
                   RichSub}}

MergeInputs ==
    {[signals |-> _extract_signals(Html(<<>>, c)), pages |-> pgs] :
        c \in MergeRootContents,
        pgs \in UNION {[1..n -> MergeResults] : n \in 0..MaxMerged}}

\* the loop stands before its k-th result with the signals sig
InLoop(sig, k) == [done |-> FALSE, value |-> sig, next |-> k]

InitMerge ==
    /\ NoCrawl /\ fn = "merge" /\ arg \in MergeInputs
    /\ ret = InLoop(arg.signals, 1)

\* crawler.py:199-216: one round of the loop
MergeRound ==
    /\ fn = "merge"
    /\ ~ ret.done
    /\ ret.next <= Len(arg.pages)
    /\ ret' = InLoop(IF arg.pages[ret.next].st = "exception" THEN ret.value
                     ELSE MergeOne(ret.value, _extract_signals(arg.pages[ret.next].html)),
                     ret.next + 1)
    /\ UNCHANGED <<cache, pc, url, max_pages, signals, links, idx, allowed, pages,
                   result, fetchLog, rootRes, robotsLog, mergedPages, robotsGets,
                   cacheWrites, failedOpen, fn, arg>>

\* the loop is over its last result
MergeEnds ==
    /\ fn = "merge"
    /\ ~ ret.done
    /\ ret.next > Len(arg.pages)
    /\ ret' = Ret(ret.value)
    /\ UNCHANGED <<cache, pc, url, max_pages, signals, links, idx, allowed, pages,
                   result, fetchLog, rootRes, robotsLog, mergedPages, robotsGets,
                   cacheWrites, failedOpen, fn, arg>>

NextMerge == MergeRound \/ MergeEnds

SpecMerge == InitMerge /\ [][NextMerge]_vars

(***************************************************************************)
(* SpecDerive: the end of crawl_site (crawler.py:218-219), _derive_features *)
(* and then _rule_score, applied to the signals of a page and to signals   *)
(* that went through a round of the merge loop.                            *)
(***************************************************************************)
DeriveInputs ==
    {_extract_signals(Html(<<>>,
        WithItems(WithTech(WithTech(WithPricing(WithEmails(
            Content(h, cs, FALSE, cr, n), e), p), "crm", t1), "ecommerce", t3), it))) :
        h \in {<<>>, <<2>>, <<3>>, <<4>>, <<5>>, <<4, 5>>, <<2, 4>>},
        it \in {<<>>, <<3>>},
        cs \in BOOLEAN, cr \in BOOLEAN, n \in {0, 2},
        e \in {<<>>, <<1>>}, p \in {<<>>, <<1>>},
        t1 \in {<<>>, <<1>>}, t3 \in {<<>>, <<3>>}}
    \cup {MergeOne(_extract_signals(Html(<<>>, c)), _extract_signals(Html(<<>>, c2))) :
            c \in MergeRootContents, c2 \in {RichSub, Content(<<3>>, TRUE, TRUE, FALSE, 2)}}

InitDerive ==
    NoCrawl /\ fn = "derive_and_score" /\ arg \in [signals : DeriveInputs] /\ ret = NoRet

DeriveReturns ==
    /\ fn = "derive_and_score"
    /\ ~ ret.done
    /\ ret' = Ret([derived |-> _derive_features(arg.signals)]
                  @@ Scored(arg.signals, arg.signals))
    /\ UNCHANGED <<cache, pc, url, max_pages, signals, links, idx, allowed, pages,
                   result, fetchLog, rootRes, robotsLog, mergedPages, robotsGets,
                   cacheWrites, failedOpen, fn, arg>>

NextDerive == DeriveReturns

SpecDerive == InitDerive /\ [][NextDerive]_vars

(***************************************************************************)
(* SpecOrder: crawl_site calls on a root page with three sub-pages whose   *)
(* fetches end in any order, each with a failure or with one of three      *)
(* pages that differ in every kind of signal.                              *)
(***************************************************************************)
OrderRootResponses ==
    {Response(200, Html(<<Anchor(RelHref(About), "About us"),
                          Anchor(RelHref(Contact), ""),
                          Anchor(RelHref(Path("team", "")), "Read more")>>,
                        WithEmails(Content(<<2, 1>>, FALSE, FALSE, FALSE, 1), ManyEmails)))}
OrderSubResponses ==
    {Raised(EmptyHtml),
     Response(200, Html(<<>>, WithEmails(Content(<<3, 1>>, TRUE, FALSE, TRUE, 2), <<1>>))),
     Response(200, Html(<<>>, WithTech(WithEmails(Content(<<4>>, FALSE, TRUE, FALSE, 0),
                                                  <<MergeCap + 3, 0>>), "crm", <<1>>))),
     Response(200, Html(<<>>, RichSub))}

NextOrder ==
    \/ Start("c1", {Url("https", "a.com", RootPath)}, {3, 4})
    \/ RobotsRootResponse("c1")
    \/ RootFetchResponse("c1", OrderRootResponses)
    \/ \E k \in 1..LinkCap : FetchDone("c1", k, OrderSubResponses)
    \/ GatherReturn("c1")
    \/ Return("c1")

SpecOrder == Init /\ [][NextOrder]_vars

(***************************************************************************)
(* find_domain (enrichment.py:1606-1638).  A company name is the sequence  *)
(* of its words, a query the sequence of its words too; a quoted phrase    *)
(* is one word of a query.                                                 *)
(***************************************************************************)
\* enrichment.py:1578-1579 on a lowercased word: & becomes and, a character
\* out of [a-z0-9\s-] becomes a blank
Clean(w) ==
    CASE w = "&" -> <<"and">>
      [] w = "co." -> <<"co">>
      [] OTHER -> <<w>>

\* enrichment.py:1582-1600
SUFFIXES ==
    {"pte", "pte.", "ltd", "ltd.", "inc", "inc.", "co", "co.", "company", "corp",
     "corp.", "llc", "plc", "limited", "holdings", "group", "singapore"}

RECURSIVE Parts(_, _)
Parts(name, i) ==
    IF i > Len(name) THEN <<>> ELSE Clean(Lower(name[i])) \o Parts(name, i + 1)

\* enrichment.py:1575-1603
_normalize_company_name(name) ==
    LET parts == Parts(name, 1)
        core == SelectSeq(parts, LAMBDA q : q \notin SUFFIXES)
    IN  IF PySlice(core, 3) # <<>> THEN PySlice(core, 3) ELSE PySlice(parts, 2)

\* f'"{company_name}"': the name as one quoted phrase
Quoted(name) == <<[phrase |-> name]>>
\* the words of a text, each a phrase of its own
Plain(words) == [k \in DOMAIN words |-> [phrase |-> <<words[k]>>]]

\* enrichment.py:1619-1624  queries
Queries(company_name) ==
    << Quoted(company_name) \o Quoted(<<"official", "website">>),
       Quoted(company_name) \o Plain(<<"site:.sg">>),
       Plain(_normalize_company_name(company_name) \o <<"official", "website">>),
       Plain(company_name \o <<"official", "website">>) >>

\* what tavily_client.search does with a query
SearchOutcomes == {"results", "no_results", "raises"}

\* find_domain stands before its i-th query; the client got the queries
\* sent and answered with answers; last_query is the client's record of
\* the query it got last
AtQuery(i, sent, answers) ==
    [done |-> FALSE, next |-> i, sent |-> sent, answers |-> answers]

FindInputs ==
    {<<"NEXIUS", "LABS", "PTE", "LTD">>, <<"nexius", "labs">>, <<"PTE", "LTD">>,
     <<"Acme", "&", "Co.">>, <<"Amazon">>}

InitFind ==
    /\ NoCrawl /\ fn = "find_domain" /\ arg \in FindInputs
    /\ ret = AtQuery(1, <<>>, <<>>)

\* enrichment.py:1626-1632: one round of the loop over queries
SearchRound ==
    /\ fn = "find_domain"
    /\ ~ ret.done
    /\ ret.next <= Len(Queries(arg))
    /\ \E out \in SearchOutcomes :
         LET sent == Append(ret.sent, Queries(arg)[ret.next])
             answers == Append(ret.answers, out)
         IN  ret' = IF out = "results"
                    THEN [done |-> TRUE, value |-> "filtered", sent |-> sent,
                          answers |-> answers]
                    ELSE AtQuery(ret.next + 1, sent, answers)
    /\ UNCHANGED <<cache, pc, url, max_pages, signals, links, idx, allowed, pages,
                   result, fetchLog, rootRes, robotsLog, mergedPages, robotsGets,
                   cacheWrites, failedOpen, fn, arg>>

\* enrichment.py:1633-1635: no query brought results, return []
SearchGivesUp ==
    /\ fn = "find_domain"
    /\ ~ ret.done
    /\ ret.next > Len(Queries(arg))
    /\ ret' = [done |-> TRUE, value |-> "empty", sent |-> ret.sent,
               answers |-> ret.answers]
    /\ UNCHANGED <<cache, pc, url, max_pages, signals, links, idx, allowed, pages,
                   result, fetchLog, rootRes, robotsLog, mergedPages, robotsGets,
                   cacheWrites, failedOpen, fn, arg>>

NextFind == SearchRound \/ SearchGivesUp

SpecFind == InitFind /\ [][NextFind]_vars

(***************************************************************************)
(* Properties.                                                             *)
(***************************************************************************)
\* the call's robots answer for its root URL is in, and it is "not allowed"
RootDisallowed(c) == robotsLog[c] # <<>> /\ ~ robotsLog[c][1].result

\* ROBOTS.allowed has returned True for u within the call
AllowedTrue(c, u) ==
    \E j \in DOMAIN robotsLog[c] : robotsLog[c][j].url = u /\ robotsLog[c][j].result

\* a sub-page's robots.txt request failed within the call
SubRobotsFailed(c) ==
    \E j \in DOMAIN robotsLog[c] :
        j > 1 /\ robotsLog[c][j].how \in {"exception", "error_status"}

\* a sub-page's fetch failed within the call
SubFetchFailed(c) == \E k \in DOMAIN pages[c] : pages[c][k].st = "exception"

\* C1: when the robots gate answers "not allowed" for the root URL, the call
\* raises RuntimeError("Blocked by robots.txt"), it issues no page fetch at
\* all (its fetch log stays empty, no root fetch, no gathered task), and it
\* returns no summary.
C1_BlockedRootRaises ==
    \A c \in Crawls :
        RootDisallowed(c) =>
            /\ pc[c] = "raised"
            /\ result[c] = Error("Blocked by robots.txt")
            /\ fetchLog[c] = <<>>
            /\ rootRes[c] = "none"
            /\ pages[c] = <<>>

C1_Witness ==
    \E c \in Crawls : RootDisallowed(c) /\ pc[c] = "raised"

\* C2: every URL the call has passed to _fetch (the root or a sub-page) is a
\* URL for which ROBOTS.allowed has already returned True in the same call.
C2_FetchOnlyAllowed ==
    \A c \in Crawls :
        \A i \in DOMAIN fetchLog[c] : AllowedTrue(c, fetchLog[c][i])

C2_Witness ==
    \E c \in Crawls :
        /\ Len(fetchLog[c]) >= 3
        /\ \E j \in DOMAIN robotsLog[c] : ~ robotsLog[c][j].result

\* C3 as stated: the call raises for no other reason than the robots block
\* of the root URL.
C3_OnlyRobotsFatal ==
    \A c \in Crawls : pc[c] = "raised" => result[c] = Error("Blocked by robots.txt")

\* C3 as amended: the call raises only at the root step, either because
\* robots.txt blocks the root URL or because the root page's fetch fails;
\* once sub-page fetches are issued the call never raises, and a call that
\* ends with a failed sub-page fetch ends with a summary.
C3_OnlyRootStepFatal ==
    \A c \in Crawls :
        /\ pc[c] = "raised" =>
              /\ Len(fetchLog[c]) <= 1
              /\ pages[c] = <<>>
              /\ \/ result[c] = Error("Blocked by robots.txt") /\ fetchLog[c] = <<>>
                 \/ result[c] = Error("HTTPError") /\ fetchLog[c] = <<url[c]>>
        /\ (SubFetchFailed(c) /\ pc[c] # "gather") =>
              pc[c] = "done" /\ result[c].kind = "summary"

C3_Witness ==
    \E c \in Crawls :
        /\ pc[c] = "done"
        /\ \A k \in DOMAIN pages[c] : pages[c][k].st = "exception"
        /\ Len(pages[c]) >= 2

\* C4: a finished call has raised exactly when robots.txt blocked its root
\* URL or its root fetch failed; with a failed robots.txt request or a failed
\* fetch of a sub-page the call does not raise and ends with a summary.
C4_RaisesIffRootFails ==
    \A c \in Crawls :
        /\ pc[c] \in {"done", "raised"} =>
              (pc[c] = "raised" <=> (RootDisallowed(c) \/ rootRes[c] = "exception"))
        /\ pc[c] \notin {"done", "raised"} =>
              ~ RootDisallowed(c) /\ rootRes[c] # "exception"
        /\ (SubRobotsFailed(c) \/ SubFetchFailed(c)) =>
              /\ pc[c] # "raised"
              /\ pc[c] = "done" => result[c].kind = "summary"

C4_Witness ==
    \E c \in Crawls :
        pc[c] = "done" /\ SubRobotsFailed(c) /\ SubFetchFailed(c)

\* C5: the gathered sub-page fetches end independently of each other: when
\* the call is done every task has ended on its own (none is left pending),
\* the merge loop has merged exactly the pages whose fetch succeeded, each
\* merged page's flags and open-roles count are in the signals, and every
\* allowed link was fetched once, a failed one not again.
C5_FailureSparesSiblings ==
    \A c \in Crawls :
        pc[c] = "done" =>
            /\ \A k \in DOMAIN pages[c] : pages[c][k].st \in {"ok", "exception"}
            /\ SeqToSet(mergedPages[c]) = {k \in DOMAIN pages[c] : pages[c][k].st = "ok"}
            /\ Len(mergedPages[c]) = Cardinality(SeqToSet(mergedPages[c]))
            /\ \A k \in DOMAIN pages[c] :
                  pages[c][k].st = "ok" =>
                    LET s2 == _extract_signals(pages[c][k].html)
                    IN  /\ s2.has_case_studies => result[c].signals.has_case_studies
                        /\ s2.has_testimonials => result[c].signals.has_testimonials
                        /\ s2.has_careers_page => result[c].signals.has_careers_page
                        /\ s2.open_roles_count <= result[c].signals.open_roles_count
            /\ fetchLog[c] = <<url[c]>> \o allowed[c]
            /\ Len(pages[c]) = Len(allowed[c])

C5_Witness ==
    \E c \in Crawls :
        /\ pc[c] = "done"
        /\ Len(pages[c]) = 3
        /\ pages[c][1].st = "exception"
        /\ pages[c][2].st = "ok" /\ pages[c][2].html.content.careers_kw
        /\ pages[c][3].st = "exception"
        /\ mergedPages[c] = <<2>>

\* C6: for every max_pages a call is given, the call passes at most max_pages
\* URLs to _fetch (the root and the sub-pages together), its candidate links
\* being at most max_pages - 1 (none when that is negative).
C6_AtMostMaxPagesFetches ==
    \A c \in Crawls :
        pc[c] # "idle" =>
            /\ Len(fetchLog[c]) <= max_pages[c]
            /\ Len(links[c]) <= Max(max_pages[c] - 1, 0)

\* C7: an allowed() call whose robots.txt request raised or came back with a
\* status >= 400 returns True, and so does every allowed() call for that
\* origin that starts after such a failure.
C7_FailOpenEverAfter ==
    \A c \in Crawls :
        \A j \in DOMAIN robotsLog[c] :
            LET e == robotsLog[c][j]
            IN  (e.how \in {"exception", "error_status"} \/ e.afterFail) => e.result

\* C8: the robots.txt of an origin is requested at most once and its cache
\* entry written at most once, and exactly once when the origin is cached.
C8_PopulatedOncePerOrigin ==
    \A o \in Origins :
        /\ robotsGets[o] <= 1
        /\ Len(cacheWrites[o]) <= 1
        /\ Cached(cache, o) => robotsGets[o] = 1 /\ Len(cacheWrites[o]) = 1

\* C9: when two overlapping calls have both written the cache entry of an
\* origin, the two writes are of the same ruleset, so that the entry does not
\* depend on which write landed last.
C9_RaceIsBenign ==
    \A o \in Origins :
        \A i, j \in DOMAIN cacheWrites[o] : cacheWrites[o][i] = cacheWrites[o][j]

\* C10: every link _discover_links returns to a call has the origin (scheme
\* and host) of the call's root URL, and so has every sub-page URL the call
\* passes to _fetch.
C10_LinksOfRootOrigin ==
    \A c \in Crawls :
        /\ \A i \in DOMAIN links[c] : Origin(links[c][i]) = Origin(url[c])
        /\ \A i \in DOMAIN fetchLog[c] : Origin(fetchLog[c][i]) = Origin(url[c])

\* the anchors of the argument that lead to a blocked extension although
\* their text or their URL holds a keyword
BlockedKeywordAnchors(anchors, base) ==
    {i \in DOMAIN anchors :
        /\ anchors[i].href.kind # "skip"
        /\ Lower(UrlJoin(base, anchors[i].href).path.ext) \in SkipExts
        /\ LinkMatches(anchors[i], UrlJoin(base, anchors[i].href))}

\* C11: no URL that _discover_links returns has a path ending, in whatever
\* case, in pdf, jpg, jpeg, png, gif, zip, doc or docx, also when the page
\* holds anchors to such files whose text or URL contains a keyword.
C11_NoBlockedExtension ==
    (fn = "_discover_links" /\ ret.done) =>
        \A i \in DOMAIN ret.value :
            Lower(ret.value[i].path.ext)
                \notin {"pdf", "jpg", "jpeg", "png", "gif", "zip", "doc", "docx"}

C11_Witness ==
    /\ fn = "_discover_links" /\ ret.done
    /\ Cardinality(BlockedKeywordAnchors(arg.html, arg.base_url)) = 2
    /\ \E i \in DOMAIN ret.value : ret.value[i].path.ext = "html"

\* crawler.py:62-73: the URLs of the anchors that pass every test of the loop
Matching(anchors, base) ==
    {UrlJoin(base, anchors[i].href) : i \in
        {j \in DOMAIN anchors :
            /\ anchors[j].href.kind # "skip"
            /\ SameSite(UrlJoin(base, anchors[j].href), base)
            /\ ~ SKIP_EXT(UrlJoin(base, anchors[j].href).path)
            /\ LinkMatches(anchors[j], UrlJoin(base, anchors[j].href))}}

\* the sub-page fetches of crawl c in flight
InFlight(c) == {k \in DOMAIN pages[c] : pages[c][k] = Pending}

\* C12: _discover_links keeps at most 6 URLs however many anchors match, so
\* that whatever max_pages is a crawl_site call has at most 6 candidate
\* links, has at most 6 sub-page fetches in flight at once, passes at most 6
\* sub-page URLs to _fetch, and returns at most 6 key_pages.
C12_AtMostSixLinks ==
    \A c \in Crawls :
        /\ Len(links[c]) <= 6
        /\ Cardinality(InFlight(c)) <= 6
        /\ Len(fetchLog[c]) <= 1 + 6
        /\ result[c].kind = "summary" => Len(result[c].key_pages) <= 6

\* seven anchors of the root page match, max_pages - 1 is above 6, and six
\* fetches are in flight
C12_Witness ==
    /\ Cardinality(Matching(DocAnchors, Origin(url["c1"]))) = 7
    /\ max_pages["c1"] = 9
    /\ Cardinality(InFlight("c1")) = 6

\* C13: in every summary that crawl_site returns, whether sub-pages were
\* merged or none, value_props and contact.emails have at most 40 entries.
C13_ListsAtMostForty ==
    \A c \in Crawls :
        result[c].kind = "summary" =>
            /\ Len(result[c].signals.value_props) <= 40
            /\ Len(result[c].signals.contact.emails) <= 40

\* C14: the rule_score that _rule_score returns is an integer from 0 to 100
\* and its rule_band is the one the thresholds give: 'Ideal ICP' from 75,
\* 'Good fit' from 50 to 74, 'Poor fit' below 50; lines 172-176 give such a
\* score and band for every total, also those above what the rules add up to.
C14_ScoreAndBand ==
    (fn = "_rule_score" /\ ret.done) =>
        /\ ret.value.rule_score \in 0..100
        /\ ret.value.rule_band \in {"Ideal ICP", "Good fit", "Poor fit"}
        /\ ret.value.rule_band = "Ideal ICP" <=> ret.value.rule_score >= 75
        /\ ret.value.rule_band = "Good fit" <=>
               (50 <= ret.value.rule_score /\ ret.value.rule_score < 75)
        /\ ret.value.rule_band = "Poor fit" <=> ret.value.rule_score < 50
        /\ \A total \in 0..60 :
               /\ ScoreOf(total) \in 0..100
               /\ BandOf(ScoreOf(total)) =
                      (IF ScoreOf(total) >= 75 THEN "Ideal ICP"
                       ELSE IF ScoreOf(total) >= 50 THEN "Good fit" ELSE "Poor fit")

\* every rule adds its points: the largest total there is, 17 of 48
C14_Witness ==
    /\ fn = "_rule_score" /\ ret.done
    /\ arg.derived.b2x = "b2b" /\ arg.derived.company_size_guess = "11-50"
    /\ arg.signals.open_roles_count > 0 /\ arg.signals.pricing # <<>>
    /\ ret.value.rule_score = 35
    /\ ret.value.rule_band = "Poor fit"

\* the sub-pages that the loop merges: the results that are no exception
MergedOf(pgs) == {i \in DOMAIN pgs : pgs[i].st # "exception"}

\* C15: no round of the merge loop turns has_case_studies, has_testimonials
\* or has_careers_page from True to False or lowers open_roles_count,
\* whatever the sub-pages and their order; when the loop ends each flag is
\* the OR, and the count the maximum, over the root and the merged sub-pages,
\* which is also what the loop run at once gives.
C15_MergeMonotone ==
    [][fn = "merge" =>
        /\ ret.value.has_case_studies => ret'.value.has_case_studies
        /\ ret.value.has_testimonials => ret'.value.has_testimonials
        /\ ret.value.has_careers_page => ret'.value.has_careers_page
        /\ ret'.value.open_roles_count >= ret.value.open_roles_count
        /\ ret'.done =>
              LET mg == MergedOf(arg.pages)
                  sg(i) == _extract_signals(arg.pages[i].html)
                  fin == ret'.value
              IN  /\ fin.has_case_studies <=>
                        (arg.signals.has_case_studies
                         \/ \E i \in mg : sg(i).has_case_studies)
                  /\ fin.has_testimonials <=>
                        (arg.signals.has_testimonials
                         \/ \E i \in mg : sg(i).has_testimonials)
                  /\ fin.has_careers_page <=>
                        (arg.signals.has_careers_page
                         \/ \E i \in mg : sg(i).has_careers_page)
                  /\ fin.open_roles_count >= arg.signals.open_roles_count
                  /\ \A i \in mg : fin.open_roles_count >= sg(i).open_roles_count
                  /\ \/ fin.open_roles_count = arg.signals.open_roles_count
                     \/ \E i \in mg : fin.open_roles_count = sg(i).open_roles_count
                  /\ fin = MergeAll(arg.signals, arg.pages, MergeOrder(arg.pages, 1), 1)
      ]_vars

\* a page with the flags and two open roles is merged before a page with
\* neither, onto a root without them
C15_Witness ==
    /\ fn = "merge" /\ ret.done
    /\ ~ arg.signals.has_case_studies /\ arg.signals.open_roles_count = 1
    /\ Len(arg.pages) = 3
    /\ arg.pages[1].st # "exception" /\ arg.pages[1].html.content.case_kw
    /\ arg.pages[1].html.content.roles = 2
    /\ arg.pages[2].st = "exception"
    /\ arg.pages[3].st # "exception" /\ ~ arg.pages[3].html.content.case_kw
    /\ arg.pages[3].html.content.roles = 0
    /\ ret.value.has_case_studies /\ ret.value.open_roles_count = 2

\* crawl c raises in this step
Raises(c) == pc[c] # "raised" /\ pc'[c] = "raised"

\* C16: when every HTTP request ends, every crawl_site call that has started
\* ends, with a summary or with an exception; and a call raises only in its
\* root step, on the root robots answer or on the root page's fetch, before
\* any sub-page robots check or sub-page fetch of the call.
C16_TerminatesRaisesAtRoot ==
    /\ \A c \in Crawls :
          (pc[c] \in {"robots_root", "fetch_root", "robots_sub", "gather"})
              ~> (pc[c] \in {"done", "raised"})
    /\ \A c \in Crawls :
          [](pc[c] \in {"done", "raised"} => result[c].kind \in {"summary", "error"})
    /\ [][\A c \in Crawls :
            Raises(c) =>
                /\ pc[c] \in {"idle", "robots_root", "fetch_root"}
                /\ pages[c] = <<>> /\ links[c] = <<>>
                /\ Len(fetchLog[c]) <= 1
                /\ Len(robotsLog'[c]) = 1
         ]_vars

\* the call has returned a summary after one of its two sub-page fetches
\* failed
C16_Witness ==
    /\ pc["c1"] = "done" /\ result["c1"].kind = "summary"
    /\ Len(pages["c1"]) = 2 /\ SubFetchFailed("c1")

\* the client's last_query once find_domain has sent a query
LastQuery == ret.sent[Len(ret.sent)]

\* C17: when find_domain has returned and the search client answered its
\* queries with results, the last query it got is the lowercased name
\* without its corporate suffixes followed by "official website"; for
\* NEXIUS LABS PTE LTD that is: nexius labs official website.
C17_LastQueryNormalized ==
    (/\ fn = "find_domain"
     /\ ret.done
     /\ \A k \in DOMAIN ret.answers : ret.answers[k] = "results"
     /\ \E j \in DOMAIN arg : Lower(arg[j]) \in SUFFIXES) =>
            /\ LastQuery = Plain(_normalize_company_name(arg) \o <<"official", "website">>)
            /\ arg = <<"NEXIUS", "LABS", "PTE", "LTD">> =>
                  LastQuery = Plain(<<"nexius", "labs", "official", "website">>)

\* the answers of ROBOTS.allowed calls that crawl c has started and ended in
\* this step: the entries its log has gained, but for the first when the
\* step began with the call awaiting a robots.txt response
StartedNow(c) ==
    LET from == Len(robotsLog[c]) + (IF pc[c] \in {"robots_root", "robots_sub"} THEN 2 ELSE 1)
    IN  {robotsLog'[c][j] : j \in from .. Len(robotsLog'[c])}

\* every link of call c is of the root URL's origin
SameOriginCall(c) ==
    \A i \in DOMAIN links[c] : Origin(links[c][i]) = Origin(url[c])

\* C18: no step removes a cache entry, whether it holds parsed rules or the
\* allow-all ruleset of a failed request; no robots.txt request is issued
\* for an origin that has an entry, and every ROBOTS.allowed call started
\* for such an origin answers from the cache.  A crawl_site call that asks
\* the gate about URLs of its root's origin only issues one robots.txt
\* request, for the root URL, when the origin had no entry at its start, and
\* none when it had.
C18_EntriesNeverExpire ==
    /\ [][/\ \A o \in DOMAIN cache :
               /\ o \in DOMAIN cache'
               /\ robotsGets'[o] = robotsGets[o]
          /\ \A c \in Crawls :
               Len(robotsLog'[c]) >= Len(robotsLog[c]) =>
                   \A e \in StartedNow(c) :
                       Origin(e.url) \in DOMAIN cache => e.how = "cache"
         ]_vars
    /\ [](\A c \in Crawls :
            SameOriginCall(c) =>
                /\ \A j \in DOMAIN robotsLog[c] : j > 1 => robotsLog[c][j].how = "cache"
                /\ pc[c] # "robots_sub")

\* one call found the origin without an entry, its robots.txt request failed
\* and its link was answered from the cache; the other call started later
\* and had the root URL and its link answered from that allow-all entry
C18_Witness ==
    \E c, d \in Crawls :
        /\ Len(robotsLog[c]) = 2 /\ SameOriginCall(c)
        /\ robotsLog[c][1].how = "exception" /\ robotsLog[c][2].how = "cache"
        /\ Len(robotsLog[d]) = 2 /\ SameOriginCall(d)
        /\ robotsLog[d][1].how = "cache" /\ robotsLog[d][1].afterFail
        /\ robotsGets[Origin(url[c])] = 1

\* the answer the gate gave crawl c for its j-th candidate link
GateAnswer(c, j) == robotsLog[c][j + 1]

\* the candidates of crawl c for which the gate answered allowed, in
\* candidate order
GateAllowed(c) ==
    SelectSeq(links[c],
              LAMBDA u : \E j \in DOMAIN links[c] :
                            links[c][j] = u /\ GateAnswer(c, j).result)

C20_StagesInOrder ==
    /\ [](\A c \in Crawls :
            /\ (Len(robotsLog[c]) >= 2 \/ pc[c] = "robots_sub"
                    \/ Len(fetchLog[c]) >= 2 \/ pages[c] # <<>>) => rootRes[c] = "ok"
            /\ (Len(fetchLog[c]) >= 2 \/ pages[c] # <<>>) =>
                   /\ idx[c] > Len(links[c])
                   /\ Len(robotsLog[c]) = 1 + Len(links[c])
            /\ mergedPages[c] # <<>> => GatherDone(pages[c])
            /\ result[c].kind = "summary" =>
                   /\ pc[c] = "done"
                   /\ GatherDone(pages[c])
                   /\ result[c].signals = signals[c]
                   /\ LET scored == _rule_score(signals[c], _derive_features(signals[c]))
                      IN  /\ result[c].rule_score = scored.rule_score
                          /\ result[c].rule_band = scored.rule_band
                          /\ result[c].shortlist = scored.shortlist)
    /\ [][\A c \in Crawls :
            /\ (signals'[c] # signals[c] /\ pc[c] = "gather") => GatherDone(pages[c])
            /\ result[c].kind = "summary" => (result'[c] = result[c] \/ pc'[c] = "idle")
         ]_vars

\* the merge of a sub-page has raised the score above that of the root page
C20_Witness ==
    \E c \in Crawls :
        /\ result[c].kind = "summary"
        /\ mergedPages[c] # <<>>
        /\ SubFetchFailed(c)
        /\ result[c].rule_score >
              _rule_score(_extract_signals(Html(<<>>, Content(<<2, 1>>, FALSE, FALSE, FALSE, 0))),
                          _derive_features(_extract_signals(
                              Html(<<>>, Content(<<2, 1>>, FALSE, FALSE, FALSE, 0))))).rule_score

\* seq is sorted ascending without duplicates and holds the 40 smallest
\* elements of U, all of U when U has no more
FortySmallest(seq, U) ==
    /\ \A i, j \in DOMAIN seq : i < j => seq[i] < seq[j]
    /\ SeqToSet(seq) \subseteq U
    /\ Len(seq) = (IF Cardinality(U) < 40 THEN Cardinality(U) ELSE 40)
    /\ \A x \in U \ SeqToSet(seq) : \A y \in SeqToSet(seq) : y < x

\* crawler.py:203-212: the lists the merge loop rebuilds, by name
ListFields(g) ==
    [value_props |-> g.value_props, products_services |-> g.products_services,
     pricing |-> g.pricing, languages |-> g.languages,
     emails |-> g.contact.emails, phones |-> g.contact.phones]
    @@ [b \in TechBuckets |-> g.tech[b]]

\* C21: when the merge loop has merged at least one sub-page, each of
\* value_props, products_services, pricing, languages, contact.emails,
\* contact.phones and every tech category is sorted ascending, free of
\* duplicates and made of the 40 smallest elements of the union of the root
\* page's values and those of all the sub-pages fetched with success.
C21_FortySmallestOfUnion ==
    (fn = "merge" /\ ret.done /\ MergedOf(arg.pages) # {}) =>
        \A f \in DOMAIN ListFields(ret.value) :
            FortySmallest(ListFields(ret.value)[f],
                SeqToSet(ListFields(arg.signals)[f])
                \cup UNION {SeqToSet(ListFields(_extract_signals(arg.pages[i].html))[f]) :
                               i \in MergedOf(arg.pages)})

\* a root page with 41 addresses is merged with a failed fetch and two
\* sub-pages, one of which brings a 42nd address: 40 are kept
C21_Witness ==
    /\ fn = "merge" /\ ret.done
    /\ Len(arg.signals.contact.emails) = 41
    /\ Len(arg.pages) = 3 /\ Cardinality(MergedOf(arg.pages)) = 2
    /\ \E i \in MergedOf(arg.pages) : 42 \in SeqToSet(arg.pages[i].html.content.emails)
    /\ Len(ret.value.contact.emails) = 40
    /\ ret.value.value_props = <<1, 2, 3>>

\* the raw total: 3, 1 or 0 points for b2x and 2 points for each of seven
\* conditions, clamped to 0..48
RawOf(s, d) ==
    LET base == CASE d.b2x = "b2b" -> 3 [] d.b2x = "unknown" -> 1 [] OTHER -> 0
        twoPointers == <<d.company_size_guess \in {"2-10", "11-50", "51-200"},
                         s.has_case_studies,
                         s.has_careers_page,
                         s.open_roles_count > 0,
                         Len(s.contact.emails) > 0,
                         Len(s.pricing) > 0,
                         Len(s.tech["crm"]) > 0 \/ Len(s.tech["analytics"]) > 0>>
        sum == base + 2 * Cardinality({k \in 1..7 : twoPointers[k]})
    IN  IF sum < 0 THEN 0 ELSE IF sum > 48 THEN 48 ELSE sum

\* n is raw * 100 / 48 rounded to the nearest integer, a tie to the even one
NearestHalfEven(n, raw) ==
    LET diff == 48 * n - 100 * raw
        dist == IF diff < 0 THEN -diff ELSE diff
    IN  /\ 2 * dist <= 48
        /\ 2 * dist = 48 => n % 2 = 0

\* C22: _rule_score adds 3 points for b2b, 1 for unknown and 0 otherwise, 2
\* points for a size of 2-10, 11-50 or 51-200, 2 points each for case
\* studies, a careers page, open roles, e-mail addresses and pricing, 2
\* points once for a CRM or an analytics tool, clamps the sum to 0..48, and
\* returns it times 100 / 48 rounded half to even.
C22_RawAndRounding ==
    (fn = "_rule_score" /\ ret.done) =>
        NearestHalfEven(ret.value.rule_score, RawOf(arg.signals, arg.derived))

\* a CRM and an analytics tool together on a b2c page of unknown size with
\* case studies and pricing: 6 points, 12.5 rounded to 12
C22_Witness ==
    /\ fn = "_rule_score" /\ ret.done
    /\ arg.derived.b2x = "b2c" /\ arg.derived.company_size_guess = "solo"
    /\ arg.signals.tech["crm"] # <<>> /\ arg.signals.tech["analytics"] # <<>>
    /\ arg.signals.has_case_studies /\ arg.signals.pricing # <<>>
    /\ RawOf(arg.signals, arg.derived) = 6
    /\ ret.value.rule_score = 12

\* C23: the shortlist is never empty; it holds 'smb_ecom' exactly when an
\* ecommerce technology was detected, 'b2b_agency' exactly when b2x is b2b,
\* and 'other' exactly when no other tag applies, so never next to another.
C23_ShortlistTags ==
    (fn = "_rule_score" /\ ret.done) =>
        LET tags == SeqToSet(ret.value.shortlist)
        IN  /\ ret.value.shortlist # <<>>
            /\ "smb_ecom" \in tags <=> Len(arg.signals.tech["ecommerce"]) > 0
            /\ "b2b_agency" \in tags <=> arg.derived.b2x = "b2b"
            /\ "other" \in tags <=> (/\ Len(arg.signals.tech["ecommerce"]) = 0
                                     /\ arg.derived.b2x # "b2b")
            /\ "other" \in tags => tags = {"other"}

\* a b2b page with an ecommerce technology gets both tags and not 'other'
C23_Witness ==
    /\ fn = "_rule_score" /\ ret.done
    /\ arg.derived.b2x = "b2b" /\ arg.signals.tech["ecommerce"] # <<>>
    /\ ret.value.shortlist = <<"smb_ecom", "b2b_agency">>

\* C24: _derive_features only ever guesses a size of unknown, 51-200 or
\* 2-10, never 'solo', so no summary carries the tag 'solo_services'.
C24_NoSoloServices ==
    (fn = "derive_and_score" /\ ret.done) =>
        /\ ret.value.derived.company_size_guess \in {"unknown", "51-200", "2-10"}
        /\ "solo_services" \notin SeqToSet(ret.value.shortlist)

\* a b2b page ('agency') of a startup: size 2-10, tagged b2b_agency only
C24_Witness ==
    /\ fn = "derive_and_score" /\ ret.done
    /\ arg.signals.value_props = <<4, 5>>
    /\ ret.value.derived.b2x = "b2b"
    /\ ret.value.derived.company_size_guess = "2-10"
    /\ ret.value.shortlist = <<"b2b_agency">>

\* C25: urgency_hint is '1-3_months' with open roles, else '3-6_months'
\* with case studies, else 'none'; triggers is ['hiring_for_growth'] exactly
\* with open roles and empty otherwise; buying_process_guess is
\* 'multi_step_process' exactly for the size 51-200 and
\* 'single_decision_maker' otherwise.
C25_UrgencyTriggersBuying ==
    (fn = "derive_and_score" /\ ret.done) =>
        LET d == ret.value.derived
            roles == arg.signals.open_roles_count > 0
        IN  /\ d.urgency_hint = (CASE roles -> "1-3_months"
                                   [] ~ roles /\ arg.signals.has_case_studies -> "3-6_months"
                                   [] OTHER -> "none")
            /\ roles => d.triggers = <<"hiring_for_growth">>
            /\ ~ roles => d.triggers = <<>>
            /\ d.company_size_guess = "51-200" => d.buying_process_guess = "multi_step_process"
            /\ d.company_size_guess # "51-200" => d.buying_process_guess = "single_decision_maker"

\* open roles win over case studies, on an enterprise page
C25_Witness ==
    /\ fn = "derive_and_score" /\ ret.done
    /\ arg.signals.open_roles_count > 0 /\ arg.signals.has_case_studies
    /\ ret.value.derived.urgency_hint = "1-3_months"
    /\ ret.value.derived.triggers = <<"hiring_for_growth">>
    /\ ret.value.derived.buying_process_guess = "multi_step_process"

\* C27: for every summary the raw total is at most 17, the rule_score at
\* most 35 and the band 'Poor fit': 'Good fit' and 'Ideal ICP' are never
\* returned.
C27_AlwaysPoorFit ==
    (fn = "derive_and_score" /\ ret.done) =>
        /\ RawOf(arg.signals, ret.value.derived) <= 17
        /\ ret.value.rule_score <= 35
        /\ ret.value.rule_band = "Poor fit"

\* the best page there can be: b2b, a size, and all six signals
C27_Witness ==
    /\ fn = "derive_and_score" /\ ret.done
    /\ ret.value.derived.b2x = "b2b"
    /\ ret.value.derived.company_size_guess = "51-200"
    /\ RawOf(arg.signals, ret.value.derived) = 17
    /\ ret.value.rule_score = 35
    /\ ret.value.rule_band = "Poor fit"

\* crawler.py:62-75: the distinct URLs the loop adds to found, in the order
\* it adds them, from anchor i on
RECURSIVE InDocOrder(_, _, _, _)
InDocOrder(anchors, base, i, seq) ==
    IF i > Len(anchors) \/ Len(seq) >= LinkCap THEN seq
    ELSE LET full == UrlJoin(base, anchors[i].href)
         IN  IF full \in Matching(<<anchors[i]>>, base) /\ full \notin SeqToSet(seq)
             THEN InDocOrder(anchors, base, i + 1, Append(seq, full))
             ELSE InDocOrder(anchors, base, i + 1, seq)

\* C26: _discover_links returns the first (up to 6) distinct matching links
\* in the order their anchors appear in the document.
C26_FirstMatchOrder ==
    (fn = "_discover_links" /\ ret.done) =>
        ret.value = InDocOrder(arg.html, arg.base_url, 1, <<>>)

\* C28: in every summary, fetched_pages is the number of pages whose fetch
\* succeeded in the call: the root page plus the sub-pages whose fetch
\* returned a page.
C28_FetchedPagesCountsSuccesses ==
    \A c \in Crawls :
        result[c].kind = "summary" =>
            result[c].fetched_pages = 1 + Cardinality(MergedOf(pages[c]))

\* C29: in every summary, signals.hiring agrees with the top-level signals:
\* hiring.careers_page equals has_careers_page and hiring.open_roles equals
\* open_roles_count, also after sub-pages have been merged.
C29_HiringAgrees ==
    \A c \in Crawls :
        result[c].kind = "summary" =>
            /\ result[c].signals.hiring.careers_page = result[c].signals.has_careers_page
            /\ result[c].signals.hiring.open_roles = result[c].signals.open_roles_count

\* C30: the concurrent fetches share no mutable state and the result does
\* not depend on their interleaving: a fetch that ends writes its own
\* result and nothing else, whatever ended before it, and the signals,
\* rule_score, rule_band and shortlist of the summary are those of merging
\* the pages fetched with success in any order.
C30_OrderIndependent ==
    [][\A c \in Crawls :
         /\ (pc[c] = "gather" /\ pc'[c] = "gather") =>
               /\ signals'[c] = signals[c]
               /\ allowed'[c] = allowed[c]
               /\ DOMAIN pages'[c] = DOMAIN pages[c]
               /\ \A k \in DOMAIN pages[c] :
                     pages[c][k] # Pending => pages'[c][k] = pages[c][k]
               /\ Cardinality({k \in DOMAIN pages[c] : pages'[c][k] # pages[c][k]}) <= 1
         /\ (pc[c] = "gather" /\ pc'[c] = "done") =>
               \A perm \in ListsOf(MergedOf(pages[c])) :
                   LET sig == MergeAll(signals[c], pages[c], perm, 1)
                       scored == _rule_score(sig, _derive_features(sig))
                   IN  /\ result'[c].signals = sig
                       /\ result'[c].rule_score = scored.rule_score
                       /\ result'[c].rule_band = scored.rule_band
                       /\ result'[c].shortlist = scored.shortlist]_vars

\* three sub-pages, one fetch failed and two different pages merged, the
\* e-mail addresses cut to 40
C30_Witness ==
    \E c \in Crawls :
        /\ result[c].kind = "summary"
        /\ Len(pages[c]) = 3
        /\ SubFetchFailed(c)
        /\ \E i, j \in MergedOf(pages[c]) :
              /\ pages[c][i].html # pages[c][j].html
              /\ pages[c][i].html.content.roles = 2
              /\ pages[c][j].html.content.roles = 0
        /\ Len(result[c].signals.contact.emails) = 40
        /\ result[c].signals.open_roles_count = 2

====
